---- MODULE Spec2Model ----
(***************************************************************************)
(* Rock-Paper-Scissors server (src/rps_server.py): the matchmaking queue,  *)
(* the per-connection handler task and the game session it drives.         *)
(*                                                                         *)
(* Granularity.  The server is an asyncio program: code between two awaits *)
(* runs without interleaving.  `await ws.send(m)` hands m to the transport *)
(* (or raises ConnectionClosed) before the task can be suspended, so every *)
(* action below is one such block: it runs from the point the task was     *)
(* resumed up to and including the next send, or up to a recv that blocks. *)
(* pc[h] names the block the handler task of connection h runs next.       *)
(* The two children of asyncio.gather are tasks of their own (tasks[h]).   *)
(***************************************************************************)
EXTENDS Naturals, Sequences, FiniteSets, TLC

\* ---------------------------------------------------------------- bounds
MaxConns == 2          \* connections that ever arrive
MaxRounds == 2         \* rounds one session may play (rematches + 1)

Conns == 1..MaxConns
None == "None"         \* Python's None

\* ------------------------------------------------------- wire payloads
LegalMoves == {"rock", "paper", "scissors"}

\* What a peer may put on the wire: a JSON object with a move, a JSON object
\* with a rematch answer, or text that json.loads / message.get rejects.
Data ==
    {[json |-> TRUE, fields |-> [move |-> m]] : m \in LegalMoves \cup {"lizard"}}
    \cup {[json |-> TRUE, fields |-> [rematch |-> a]] : a \in {"yes", "no"}}
    \cup {[json |-> FALSE, fields |-> [raw |-> "garbage"]]}

\* json.loads(data) succeeds and yields a dict
json_loads_ok(data) == data.json

\* message.get(key)
dict_get(message, key) == IF key \in DOMAIN message THEN message[key] ELSE None

\* ------------------------------------------------------------ messages
Msg(type) == [type |-> type, player |-> None]
StartMsg(role) == [type |-> "start", player |-> role]
ResultMsg(move1, move2, result) == [move1 |-> move1, move2 |-> move2, result |-> result]
NoMsg == Msg(None)
NoResult == ResultMsg(None, None, None)

\* ------------------------------------------------------- Move resolver
wins == [m \in LegalMoves |->
            CASE m = "rock" -> "scissors"
              [] m = "scissors" -> "paper"
              [] m = "paper" -> "rock"]

get_result_swapped(move1, move2) ==
    IF move1 = move2 THEN "draw"
    ELSE IF wins[move2] = move1 THEN "player1" ELSE "player2"

get_result(move1, move2) ==
    IF move1 = move2 THEN "draw"
    ELSE IF wins[move1] = move2 THEN "player1" ELSE "player2"

\* ---------------------------------------------------------------- state
VARIABLES
    conn,             \* conn[h]: "new" (not yet connected), "open", "closed"
    waiting_players,  \* the global list waiting_players
    pc,               \* pc[h]: position of the handler task of connection h
    player1_ws,       \* game.player1_ws of the game built by handler h
    player2_ws,       \* game.player2_ws of that game
    message,          \* the message the broadcast in progress is sending
    players,          \* game.players of that game: websocket -> move or None
    game_over,        \* game.game_over of that game
    tasks,            \* tasks[h][ws]: the asyncio.gather child reading from ws
    sent,             \* sent[h]: messages handed to the transport of h, in order
    result_msg,       \* result_msg[h]: the result message sent to h in the current round
    submitted,        \* submitted[h]: move field h's peer submitted in the current round
    rounds,           \* rounds[h]: times start_game ran for the game of handler h
    resolved,         \* resolved[h]: times get_result ran for the game of handler h
    ticket,           \* ticket[h]: position of h in the order of enqueueing (0: never)
    paired            \* paired[h]: queue contents at the moment h was paired

vars == <<conn, waiting_players, pc, player1_ws, player2_ws, message, players, game_over, tasks,
          sent, result_msg, submitted, rounds, resolved, ticket, paired>>

gameVars == <<player1_ws, player2_ws, message, players, game_over, tasks, result_msg, submitted,
              rounds, resolved>>
queueVars == <<waiting_players, ticket, paired>>

HasGame(h) == rounds[h] > 0
Terminal(h) == pc[h] \in {"done", "conn_closed", "raised"}

\* ------------------------------------------------------------- helpers
IsOpen(ws) == conn[ws] = "open"
Send(ws, m) == [sent EXCEPT ![ws] = Append(@, m)]
CountType(log, t) == Cardinality({i \in DOMAIN log : log[i].type = t})

\* list.remove(x) guarded by `if x in list`
RemoveIfPresent(q, x) == SelectSeq(q, LAMBDA y : y # x)

\* waiting_players.pop(0): the element returned and the list left behind
PopKeepsHead(q) == [head |-> Head(q), rest |-> q]

Pop0(q) == [head |-> Head(q), rest |-> Tail(q)]

\* RockPaperScissorsGame(opponent_ws, websocket) as called by the handler
NewGameSwapped(opponent_ws, websocket) ==
    [player1_ws |-> websocket, player2_ws |-> opponent_ws]

NewGame(opponent_ws, websocket) ==
    [player1_ws |-> opponent_ws, player2_ws |-> websocket]

\* reset_game / __init__: the empty move record
EmptyRecord(p1, p2) == (p1 :> None) @@ (p2 :> None)
Gather(p1, p2, coro) == (p1 :> coro) @@ (p2 :> coro)

\* A gather child has returned.  "true" is True; the others are False and
\* record why: illegal move, connection closed in receive_move, answer other
\* than yes, connection closed in receive_response.
Returned(t) == t \in {"true", "false_invalid", "false_closed", "false_answer", "false_gone"}

\* line 180: all(results)
NoMoveOk(results) == \A ws \in DOMAIN results : results[ws] # "true"

AllMovesOk(results) == \A ws \in DOMAIN results : results[ws] = "true"

\* line 100: all(responses)
AnyAgrees(responses) == \E ws \in DOMAIN responses : responses[ws] = "true"

AllAgree(responses) == \A ws \in DOMAIN responses : responses[ws] = "true"

Init ==
    /\ conn = [h \in Conns |-> "new"]
    /\ waiting_players = <<>>
    /\ pc = [h \in Conns |-> "idle"]
    /\ player1_ws = [h \in Conns |-> h]      \* no game yet (rounds[h] = 0):
    /\ player2_ws = [h \in Conns |-> h]      \* placeholders, never read
    /\ message = [h \in Conns |-> NoMsg]
    /\ players = [h \in Conns |-> <<>>]
    /\ game_over = [h \in Conns |-> FALSE]
    /\ tasks = [h \in Conns |-> <<>>]
    /\ sent = [h \in Conns |-> <<>>]
    /\ result_msg = [h \in Conns |-> NoResult]
    /\ submitted = [h \in Conns |-> None]
    /\ rounds = [h \in Conns |-> 0]
    /\ resolved = [h \in Conns |-> 0]
    /\ ticket = [h \in Conns |-> 0]
    /\ paired = [h \in Conns |-> <<>>]

\* ------------------------------------------------------- environment
\* A peer connects; websockets.serve creates the handler task for it.
\* Handles are interchangeable, so connections are numbered in the order
\* they arrive and in the order their handler tasks first run (Started).
Started(h) == pc[h] \notin {"idle", "handler"}

Arrive(h) ==
    /\ conn[h] = "new"
    /\ \A g \in Conns : g < h => conn[g] # "new"
    /\ conn' = [conn EXCEPT ![h] = "open"]
    /\ pc' = [pc EXCEPT ![h] = "handler"]
    /\ UNCHANGED <<gameVars, queueVars, sent>>

\* The connection of h closes (peer leaves, network fails).
Close(h) ==
    /\ conn[h] = "open"
    /\ conn' = [conn EXCEPT ![h] = "closed"]
    /\ UNCHANGED <<pc, gameVars, queueVars, sent>>

\* ------------------------------------------------------------ handler
\* An exception leaves the handler: the finally clause runs (lines 149-151)
\* and the task ends.  how = "conn_closed": ConnectionClosed, caught at line
\* 147; how = "raised": any other exception, which escapes; how = "done":
\* normal return.
Leave(h, how) ==
    /\ pc' = [pc EXCEPT ![h] = how]
    /\ waiting_players' = RemoveIfPresent(waiting_players, h)

\* `await ws.send(m)` by the task of handler h, which continues at `next`
SendStep(h, ws, m, next) ==
    IF IsOpen(ws)
    THEN /\ sent' = Send(ws, m)
         /\ pc' = [pc EXCEPT ![h] = next]
         /\ UNCHANGED waiting_players
    ELSE /\ sent' = sent
         /\ Leave(h, "conn_closed")

\* lines 139-142 and 160: a waiter exists; pop it, build the game, send the
\* first start notice
HandlerPair(h) ==
    /\ pc[h] = "handler"
    /\ \A g \in Conns : g < h => Started(g)
    /\ waiting_players # <<>>
    /\ LET popped == Pop0(waiting_players)
           game == NewGame(popped.head, h)
       IN /\ player1_ws' = [player1_ws EXCEPT ![h] = game.player1_ws]
          /\ player2_ws' = [player2_ws EXCEPT ![h] = game.player2_ws]
          /\ players' = [players EXCEPT ![h] = EmptyRecord(game.player1_ws, game.player2_ws)]
          /\ game_over' = [game_over EXCEPT ![h] = FALSE]
          /\ tasks' = [tasks EXCEPT ![h] = Gather(game.player1_ws, game.player2_ws, "none")]
          /\ rounds' = [rounds EXCEPT ![h] = 1]
          /\ paired' = [paired EXCEPT ![h] = waiting_players]
          /\ IF IsOpen(game.player1_ws)
             THEN /\ sent' = Send(game.player1_ws, StartMsg("player1"))
                  /\ pc' = [pc EXCEPT ![h] = "start2"]
                  /\ waiting_players' = popped.rest
             ELSE /\ sent' = sent
                  /\ pc' = [pc EXCEPT ![h] = "conn_closed"]
                  /\ waiting_players' = RemoveIfPresent(popped.rest, h)
    /\ UNCHANGED <<conn, message, result_msg, submitted, resolved, ticket>>

\* line 145: the waiting notice is handed to the transport of h
WaitingNotSentYet(h) == sent

SendWaiting(h) == Send(h, Msg("waiting"))

\* lines 143-146: nobody waits; enqueue and send the waiting notice.  On a
\* closed connection the send raises, at once or after the task was
\* suspended with h still in the list ("waiting_raises").
HandlerWait(h) ==
    /\ pc[h] = "handler"
    /\ \A g \in Conns : g < h => Started(g)
    /\ waiting_players = <<>>
    /\ ticket' = [ticket EXCEPT ![h] = Cardinality({g \in Conns : ticket[g] > 0}) + 1]
    /\ IF IsOpen(h)
       THEN /\ sent' = SendWaiting(h)
            /\ pc' = [pc EXCEPT ![h] = "wait_closed"]
            /\ waiting_players' = Append(waiting_players, h)
       ELSE /\ sent' = sent
            /\ \/ /\ pc' = [pc EXCEPT ![h] = "conn_closed"]
                  /\ waiting_players' = RemoveIfPresent(Append(waiting_players, h), h)
               \/ /\ pc' = [pc EXCEPT ![h] = "waiting_raises"]
                  /\ waiting_players' = Append(waiting_players, h)
    /\ UNCHANGED <<conn, gameVars, paired>>

\* lines 147-151: the suspended send of the waiting notice raises
WaitingRaises(h) ==
    /\ pc[h] = "waiting_raises"
    /\ Leave(h, "conn_closed")
    /\ UNCHANGED <<conn, gameVars, sent, ticket, paired>>

\* line 146 returns once the connection is closed; then the finally clause
WaitClosed(h) ==
    /\ pc[h] = "wait_closed"
    /\ conn[h] = "closed"
    /\ Leave(h, "done")
    /\ UNCHANGED <<conn, gameVars, sent, ticket, paired>>

\* ------------------------------------------------------- game session
\* line 161: the second start notice
SendStart2(g) ==
    /\ pc[g] = "start2"
    /\ SendStep(g, player2_ws[g], StartMsg("player2"), "your_move1")
    /\ UNCHANGED <<conn, gameVars, ticket, paired>>

\* lines 171-172: the loop test and the first prompt; line 187 if the loop
\* is not entered
SendYourMove1(g) ==
    /\ pc[g] = "your_move1"
    /\ IF ~game_over[g]
       THEN /\ SendStep(g, player1_ws[g], Msg("your_move"), "your_move2")
            /\ UNCHANGED message
       ELSE /\ SendStep(g, player1_ws[g], Msg("rematch"), "rematch2")
            /\ message' = [message EXCEPT ![g] = Msg("rematch")]
    /\ UNCHANGED <<conn, player1_ws, player2_ws, players, game_over, tasks,
                   result_msg, submitted, rounds, resolved, ticket, paired>>

\* lines 173-178: the second prompt, then gather starts both receive_move
SendYourMove2(g) ==
    /\ pc[g] = "your_move2"
    /\ SendStep(g, player2_ws[g], Msg("your_move"), "gather_moves")
    /\ tasks' = [tasks EXCEPT ![g] =
                   IF IsOpen(player2_ws[g])
                   THEN Gather(player1_ws[g], player2_ws[g], "receive_move")
                   ELSE @]
    /\ UNCHANGED <<conn, player1_ws, player2_ws, message, players, game_over,
                   result_msg, submitted, rounds, resolved, ticket, paired>>

\* line 39: the test `move not in ["rock", "paper", "scissors"]`, negated
AnyStringIsValid(move) == move # None

MoveIsValid(move) == move \in LegalMoves

\* line 46: self.players[websocket] = move
StoreMove(g, websocket, move) ==
    [players EXCEPT ![g][websocket] = move]

\* lines 39-50, receive_move(websocket): a frame arrives (possibly one that
\* was buffered before the connection closed) or recv raises ConnectionClosed
ReceiveMove(g, websocket) ==
    /\ HasGame(g)
    /\ websocket \in DOMAIN tasks[g]
    /\ tasks[g][websocket] = "receive_move"
    /\ \/ \E data \in Data :
               IF ~json_loads_ok(data)
               THEN /\ tasks' = [tasks EXCEPT ![g][websocket] = "raised"]
                    /\ UNCHANGED <<players, sent, submitted>>
               ELSE LET move == dict_get(data.fields, "move") IN
                 /\ submitted' = [submitted EXCEPT ![websocket] = move]
                 /\ IF ~MoveIsValid(move)
                    THEN /\ UNCHANGED players
                         /\ IF IsOpen(websocket)
                            THEN /\ sent' = Send(websocket, Msg("error"))
                                 /\ tasks' = [tasks EXCEPT ![g][websocket] = "false_invalid"]
                            ELSE /\ sent' = sent
                                 /\ tasks' = [tasks EXCEPT ![g][websocket] = "false_closed"]
                    ELSE /\ players' = StoreMove(g, websocket, move)
                         /\ tasks' = [tasks EXCEPT ![g][websocket] = "true"]
                         /\ sent' = sent
       \/ /\ conn[websocket] = "closed"
          /\ tasks' = [tasks EXCEPT ![g][websocket] = "false_closed"]
          /\ UNCHANGED <<players, sent, submitted>>
    /\ UNCHANGED <<conn, pc, player1_ws, player2_ws, message, game_over,
                   result_msg, rounds, resolved, queueVars>>

\* lines 56-59, determine_winner up to its broadcast
ResultOfSwapped(g) ==
    LET move1 == players[g][player2_ws[g]]
        move2 == players[g][player1_ws[g]]
    IN ResultMsg(move1, move2, get_result(move1, move2))

ResultOf(g) ==
    LET move1 == players[g][player1_ws[g]]
        move2 == players[g][player2_ws[g]]
    IN ResultMsg(move1, move2, get_result(move1, move2))

\* lines 175-184: both receive_move returned; either the error broadcast or
\* determine_winner begins (first send of the broadcast, line 85)
JoinMoves(g) ==
    /\ pc[g] = "gather_moves"
    /\ \A ws \in DOMAIN tasks[g] : Returned(tasks[g][ws])
    /\ IF ~AllMovesOk(tasks[g])
       THEN /\ message' = [message EXCEPT ![g] = Msg("error")]
            /\ SendStep(g, player1_ws[g], Msg("error"), "error2")
            /\ UNCHANGED <<resolved, result_msg>>
       ELSE /\ message' = [message EXCEPT ![g] = ResultOf(g)]
            /\ resolved' = [resolved EXCEPT ![g] = @ + 1]
            /\ SendStep(g, player1_ws[g], Msg("result"), "result2")
            /\ result_msg' = IF IsOpen(player1_ws[g])
                             THEN [result_msg EXCEPT ![player1_ws[g]] = ResultOf(g)]
                             ELSE result_msg
    /\ UNCHANGED <<conn, player1_ws, player2_ws, players, game_over, tasks,
                   submitted, rounds, ticket, paired>>

\* asyncio.gather re-raises the first exception of a child in the session
\* task; it is no ConnectionClosed, so it escapes the handler (line 147).
\* The other child is not cancelled.
GatherRaises(g) ==
    /\ pc[g] \in {"gather_moves", "gather_resp"}
    /\ \E ws \in DOMAIN tasks[g] : tasks[g][ws] = "raised"
    /\ Leave(g, "raised")
    /\ UNCHANGED <<conn, gameVars, sent, ticket, paired>>

\* line 86 for the error broadcast of line 181
SendError2(g) ==
    /\ pc[g] = "error2"
    /\ SendStep(g, player2_ws[g], message[g], "after_error")
    /\ UNCHANGED <<conn, gameVars, ticket, paired>>

\* line 86 for the result broadcast of line 59
SendResult2(g) ==
    /\ pc[g] = "result2"
    /\ SendStep(g, player2_ws[g], Msg("result"), "after_result")
    /\ result_msg' = IF IsOpen(player2_ws[g])
                     THEN [result_msg EXCEPT ![player2_ws[g]] = message[g]]
                     ELSE result_msg
    /\ UNCHANGED <<conn, player1_ws, player2_ws, message, players, game_over,
                   tasks, submitted, rounds, resolved, ticket, paired>>

\* lines 182, 187, 95, 85: after the error broadcast the loop is left and
\* ask_for_rematch starts its broadcast
AskRematchAfterError(g) ==
    /\ pc[g] = "after_error"
    /\ message' = [message EXCEPT ![g] = Msg("rematch")]
    /\ SendStep(g, player1_ws[g], Msg("rematch"), "rematch2")
    /\ UNCHANGED <<conn, player1_ws, player2_ws, players, game_over, tasks,
                   result_msg, submitted, rounds, resolved, ticket, paired>>

\* lines 60, 185, 187, 95, 85: determine_winner sets game_over, the loop is
\* left and ask_for_rematch starts its broadcast
AskRematchAfterResult(g) ==
    /\ pc[g] = "after_result"
    /\ game_over' = [game_over EXCEPT ![g] = TRUE]
    /\ message' = [message EXCEPT ![g] = Msg("rematch")]
    /\ SendStep(g, player1_ws[g], Msg("rematch"), "rematch2")
    /\ UNCHANGED <<conn, player1_ws, player2_ws, players, tasks,
                   result_msg, submitted, rounds, resolved, ticket, paired>>

\* lines 86, 96-99: second rematch prompt, then gather starts both
\* receive_response
SendRematch2(g) ==
    /\ pc[g] = "rematch2"
    /\ SendStep(g, player2_ws[g], message[g], "gather_resp")
    /\ tasks' = [tasks EXCEPT ![g] =
                   IF IsOpen(player2_ws[g])
                   THEN Gather(player1_ws[g], player2_ws[g], "receive_response")
                   ELSE @]
    /\ UNCHANGED <<conn, player1_ws, player2_ws, message, players, game_over,
                   result_msg, submitted, rounds, resolved, ticket, paired>>

\* line 119: the value receive_response returns for a parsed message
Agrees(msg) == dict_get(msg, "rematch") = "yes"

\* lines 116-121, receive_response(websocket).  A peer answers "yes" only
\* while the session may still play another round (MaxRounds).
ReceiveResponse(g, websocket) ==
    /\ HasGame(g)
    /\ websocket \in DOMAIN tasks[g]
    /\ tasks[g][websocket] = "receive_response"
    /\ \/ \E data \in Data :
            /\ (json_loads_ok(data) /\ Agrees(data.fields)) => rounds[g] < MaxRounds
            /\ tasks' = [tasks EXCEPT ![g][websocket] =
                           IF ~json_loads_ok(data) THEN "raised"
                           ELSE IF Agrees(data.fields) THEN "true"
                           ELSE "false_answer"]
       \/ /\ conn[websocket] = "closed"
          /\ tasks' = [tasks EXCEPT ![g][websocket] = "false_gone"]
    /\ UNCHANGED <<conn, pc, player1_ws, player2_ws, message, players, game_over,
                   sent, result_msg, submitted, rounds, resolved, queueVars>>

\* line 102: what ask_for_rematch runs after reset_game, as the first send
\* it leads to (start_game: line 160; game_loop would be line 172)
RestartAtGameLoop(g) ==
    [ws |-> player1_ws[g], m |-> Msg("your_move"), next |-> "your_move2"]

RestartSwapsRoles(g) ==
    [ws |-> player2_ws[g], m |-> StartMsg("player1"), next |-> "start2"]

Restart(g) ==
    [ws |-> player1_ws[g], m |-> StartMsg("player1"), next |-> "start2"]

\* lines 127-128, reset_game: the move record and the terminal flag after it
reset_game_keeps_flag(g) ==
    [players |-> EmptyRecord(player1_ws[g], player2_ws[g]), game_over |-> game_over[g]]

reset_game(g) ==
    [players |-> EmptyRecord(player1_ws[g], player2_ws[g]), game_over |-> FALSE]

\* lines 100-104, then 127-128 and 160, or 85: both receive_response
\* returned; reset_game and start_game again, or the end broadcast
JoinResponses(g) ==
    /\ pc[g] = "gather_resp"
    /\ \A ws \in DOMAIN tasks[g] : Returned(tasks[g][ws])
    /\ IF AllAgree(tasks[g])
       THEN /\ players' = [players EXCEPT ![g] = reset_game(g).players]
            /\ game_over' = [game_over EXCEPT ![g] = reset_game(g).game_over]
            /\ rounds' = [rounds EXCEPT ![g] = @ + 1]
            /\ result_msg' = [h \in Conns |->
                                IF h \in DOMAIN players[g] THEN NoResult ELSE result_msg[h]]
            /\ submitted' = [h \in Conns |->
                                IF h \in DOMAIN players[g] THEN None ELSE submitted[h]]
            /\ SendStep(g, Restart(g).ws, Restart(g).m, Restart(g).next)
            /\ UNCHANGED message
       ELSE /\ message' = [message EXCEPT ![g] = Msg("end")]
            /\ SendStep(g, player1_ws[g], Msg("end"), "end2")
            /\ UNCHANGED <<players, game_over, rounds, result_msg, submitted>>
    /\ UNCHANGED <<conn, player1_ws, player2_ws, tasks, resolved, ticket, paired>>

\* line 86 for the end broadcast; every frame of the session then returns
\* and the handler runs its finally clause
SendEnd2(g) ==
    /\ pc[g] = "end2"
    /\ SendStep(g, player2_ws[g], message[g], "done")
    /\ UNCHANGED <<conn, gameVars, ticket, paired>>

\* ---------------------------------------------------------------- system
Next ==
    \/ \E h \in Conns : Arrive(h)
    \/ \E h \in Conns : Close(h)
    \/ \E h \in Conns : HandlerPair(h)
    \/ \E h \in Conns : HandlerWait(h)
    \/ \E h \in Conns : WaitingRaises(h)
    \/ \E h \in Conns : WaitClosed(h)
    \/ \E g \in Conns : SendStart2(g)
    \/ \E g \in Conns : SendYourMove1(g)
    \/ \E g \in Conns : SendYourMove2(g)
    \/ \E g \in Conns, ws \in Conns : ReceiveMove(g, ws)
    \/ \E g \in Conns : JoinMoves(g)
    \/ \E g \in Conns : GatherRaises(g)
    \/ \E g \in Conns : SendError2(g)
    \/ \E g \in Conns : SendResult2(g)
    \/ \E g \in Conns : AskRematchAfterError(g)
    \/ \E g \in Conns : AskRematchAfterResult(g)
    \/ \E g \in Conns : SendRematch2(g)
    \/ \E g \in Conns, ws \in Conns : ReceiveResponse(g, ws)
    \/ \E g \in Conns : JoinResponses(g)
    \/ \E g \in Conns : SendEnd2(g)

Spec == Init /\ [][Next]_vars

\* The event loop runs every task that is ready: the session task takes its
\* next step, and a recv on a closed connection returns (or raises).  When
\* a connected peer sends its next frame is up to the peer: no fairness.
SessionStep(g) ==
    \/ SendStart2(g) \/ SendYourMove1(g) \/ SendYourMove2(g)
    \/ JoinMoves(g) \/ GatherRaises(g) \/ SendError2(g) \/ SendResult2(g)
    \/ AskRematchAfterError(g) \/ AskRematchAfterResult(g) \/ SendRematch2(g)
    \/ JoinResponses(g) \/ SendEnd2(g)

RecvOnClosed(g, ws) ==
    /\ conn[ws] = "closed"
    /\ ReceiveMove(g, ws) \/ ReceiveResponse(g, ws)

FairSpec ==
    /\ Init /\ [][Next]_vars
    /\ \A g \in Conns : WF_vars(SessionStep(g))
    /\ \A g \in Conns : \A ws \in Conns : WF_vars(RecvOnClosed(g, ws))

\* ================================================================ claims
Range(q) == {q[i] : i \in DOMAIN q}
Games == {g \in Conns : HasGame(g)}
Handles(g) == {player1_ws[g], player2_ws[g]}
LastType(log) == IF log = <<>> THEN None ELSE log[Len(log)].type

\* the cyclic relation of the game: rock beats scissors, scissors beats
\* paper, paper beats rock
Beats(x, y) ==
    <<x, y>> \in {<<"rock", "scissors">>, <<"scissors", "paper">>, <<"paper", "rock">>}

Outcome(x, y) == IF x = y THEN "draw" ELSE IF Beats(x, y) THEN "player1" ELSE "player2"

\* C1: for the two legal choices of any round (all nine pairs occur),
\* get_result returns draw iff the choices are equal, player1 iff the first
\* beats the second under the cyclic relation, and player2 otherwise.
C1_GetResultTable ==
    \A h \in Conns :
        result_msg[h] # NoResult =>
            /\ result_msg[h].move1 \in LegalMoves
            /\ result_msg[h].move2 \in LegalMoves
            /\ result_msg[h].result = Outcome(result_msg[h].move1, result_msg[h].move2)

C1_Witness ==
    \E h \in Conns :
        /\ result_msg[h] # NoResult
        /\ result_msg[h].move1 = "paper"
        /\ result_msg[h].move2 = "rock"
        /\ result_msg[h].result = "player1"

C4_NoClosedWaiterPaired ==
    \A g \in Games : CountType(sent[player1_ws[g]], "start") >= 1

\* C5: a result message reports as move1 the choice role A submitted in the
\* current round, as move2 the choice role B submitted, and as result
\* get_result(move1, move2); role B is sent it only after role A was sent
\* the same message, and once the broadcast is over both handles have it.
C5_ResultReportsSubmittedMoves ==
    \A g \in Games :
        LET p1 == player1_ws[g]
            p2 == player2_ws[g]
        IN /\ \A h \in {p1, p2} :
                 result_msg[h] # NoResult =>
                     /\ result_msg[h].move1 = submitted[p1]
                     /\ result_msg[h].move2 = submitted[p2]
                     /\ result_msg[h].result = get_result(submitted[p1], submitted[p2])
           /\ result_msg[p2] # NoResult => result_msg[p1] = result_msg[p2]
           /\ (pc[g] = "after_result" \/ game_over[g]) =>
                 /\ result_msg[p1] # NoResult
                 /\ result_msg[p2] = result_msg[p1]
                 /\ CountType(sent[p1], "result") = resolved[g]
                 /\ CountType(sent[p2], "result") = resolved[g]

C5_Witness ==
    \E g \in Games :
        /\ pc[g] = "after_result"
        /\ submitted[player1_ws[g]] = "rock"
        /\ submitted[player2_ws[g]] = "scissors"
        /\ result_msg[player1_ws[g]] = ResultMsg("rock", "scissors", "player1")
        /\ result_msg[player2_ws[g]] = ResultMsg("rock", "scissors", "player1")

\* both peers of the game still connected and no error notice sent so far
Clean(g) ==
    \A h \in Handles(g) : IsOpen(h) /\ CountType(sent[h], "error") = 0

\* C6 as stated: in a session whose peers stay connected and play legal
\* moves, each handle is sent start exactly once however many rematches
\* were agreed, while the session runs one move-collection round per
\* agreement plus one.
C6_StartSentOnce ==
    \A g \in Games :
        (pc[g] = "gather_moves" /\ Clean(g)) =>
            \A h \in Handles(g) :
                /\ CountType(sent[h], "your_move") = rounds[g]
                /\ CountType(sent[h], "start") = 1

\* C6 amended: after N unanimous yes votes the session is in its round
\* N+1, each handle has been prompted for a move N+1 times and has been
\* sent start once per round, N+1 times: the start notice is re-sent at
\* every rematch.
C6_StartSentEveryRound ==
    \A g \in Games :
        pc[g] = "gather_moves" =>
            \A h \in Handles(g) :
                /\ CountType(sent[h], "rematch") = rounds[g] - 1
                /\ CountType(sent[h], "your_move") = rounds[g]
                /\ CountType(sent[h], "start") = rounds[g]

C6_Witness ==
    \E g \in Games :
        /\ pc[g] = "gather_moves"
        /\ Clean(g)
        /\ rounds[g] = 2
        /\ resolved[g] = 1
        /\ \A h \in Handles(g) : CountType(sent[h], "start") = 2

\* C7: a rematch vote with an answer other than yes never starts another
\* round; the end notice is sent at most once to a handle and is the last
\* message that handle is ever sent; when the end broadcast went through,
\* each handle has been sent end exactly once.
C7_OneEndThenSilence ==
    \A g \in Games :
        /\ (rounds[g] > 1 /\ pc[g] \in {"start2", "your_move1", "your_move2"}) =>
              \A ws \in Handles(g) : tasks[g][ws] = "true"
        /\ pc[g] \in {"end2", "done"} =>
              \E ws \in Handles(g) : tasks[g][ws] \in {"false_answer", "false_gone"}
        /\ \A h \in Handles(g) :
              /\ CountType(sent[h], "end") <= 1
              /\ CountType(sent[h], "end") = 1 => LastType(sent[h]) = "end"
        /\ pc[g] = "done" => \A h \in Handles(g) : CountType(sent[h], "end") = 1

C7_Witness ==
    \E g \in Games :
        /\ pc[g] = "done"
        /\ rounds[g] = 2
        /\ \E ws \in Handles(g) : tasks[g][ws] = "false_answer"
        /\ \A h \in Handles(g) :
              IsOpen(h) /\ CountType(sent[h], "end") = 1 /\ LastType(sent[h]) = "end"

\* C8: when role A's connection closed during the first move collection,
\* role B submitted its move and is still connected once the session is
\* over, role B has been sent exactly one error notice and get_result was
\* never invoked.
C8_SurvivorSentOneError ==
    \A g \in Games :
        ( /\ Terminal(g)
          /\ rounds[g] = 1
          /\ tasks[g][player1_ws[g]] = "false_closed"
          /\ tasks[g][player2_ws[g]] = "true"
          /\ IsOpen(player2_ws[g]) ) =>
            /\ CountType(sent[player2_ws[g]], "error") = 1
            /\ resolved[g] = 0

\* C9: when a connected peer submits an illegal move, the next message it is
\* sent is an error; the round then fails as it does when that peer
\* disconnects: no result is sent for the round and the session sends
\* nothing but its error notice before it ends; and the move the other role
\* has stored is the one that role submitted.
C9_IllegalMoveFailsLikeDisconnect ==
    \A g \in Games : \A ws \in Handles(g) :
        tasks[g][ws] = "false_invalid" =>
            /\ pc[g] = "gather_moves" => LastType(sent[ws]) = "error"
            /\ \A h \in Handles(g) : result_msg[h] = NoResult
            /\ pc[g] \in {"gather_moves", "error2", "after_error",
                           "conn_closed", "raised"}
            /\ \A other \in Handles(g) :
                  tasks[g][other] = "true" => players[g][other] = submitted[other]

\* C10: once a move collection has failed for either handle and the join is
\* past, the only message a handle is sent after its move prompt is the
\* error notice (no result, rematch prompt, move prompt or start notice),
\* and when the error broadcast has returned every handle that is still
\* open has been sent it.
C10_FailedRoundEndsSession ==
    \A g \in Games :
        ( /\ \A ws \in Handles(g) : Returned(tasks[g][ws])
          /\ \E ws \in Handles(g) : tasks[g][ws] \in {"false_invalid", "false_closed"}
          /\ pc[g] # "gather_moves" ) =>
            /\ \A h \in Handles(g) : LastType(sent[h]) \in {"your_move", "error"}
            /\ pc[g] = "after_error" =>
                  \A h \in Handles(g) : IsOpen(h) => LastType(sent[h]) = "error"

\* h has sent nothing but well-formed, legal frames to the tasks of game g
FollowsProtocol(g, h) ==
    tasks[g][h] \in {"none", "receive_move", "receive_response", "true", "false_answer"}

Notified(h) == CountType(sent[h], "error") + CountType(sent[h], "end") >= 1

\* C11: when the task of a session that reached its move prompts has ended
\* (normally or by a connection failure of the other peer), every peer of
\* that session that is still connected and followed the protocol has been
\* sent at least one error or end notice.
C11_SurvivorNotified ==
    \A g \in Games : \A h \in Handles(g) :
        ( /\ pc[g] \in {"done", "conn_closed"}
          /\ IsOpen(h)
          /\ FollowsProtocol(g, h)
          /\ CountType(sent[h], "your_move") >= 1 ) => Notified(h)

\* C12: a payload that is not a parseable key/value object never makes
\* receive_move or receive_response raise: no gather child ends with an
\* exception, the session task is never ended by one, and a session that
\* has ended after its move prompts has notified every open handle.
C12_MalformedPayloadIsNoCrash ==
    \A g \in Games :
        /\ \A ws \in Handles(g) : tasks[g][ws] # "raised"
        /\ pc[g] # "raised"
        /\ (Terminal(g) /\ \A h \in Handles(g) : IsOpen(h) /\ CountType(sent[h], "your_move") >= 1)
              => \A h \in Handles(g) : Notified(h)

\* the rematch vote of game g is complete and some handle did not say yes
\* (it answered something else, or its connection closed before it answered)
VoteFailed(g) ==
    /\ \A ws \in Handles(g) : Returned(tasks[g][ws])
    /\ \E ws \in Handles(g) : tasks[g][ws] \in {"false_answer", "false_gone"}

\* C13: a handle that closes before answering or answers anything but yes
\* counts as no: after such a vote no new round starts (the move record is
\* not reset and no further start or move prompt is sent), and once the
\* session is over every handle that is still open has been sent end.
C13_NonYesVoteSendsEnd ==
    \A g \in Games :
        VoteFailed(g) =>
            /\ pc[g] \in {"gather_resp", "end2", "done", "conn_closed"}
            /\ \A h \in Handles(g) : LastType(sent[h]) \in {"rematch", "end"}
            /\ Terminal(g) =>
                  \A h \in Handles(g) : IsOpen(h) => CountType(sent[h], "end") = 1

\* a receive_move child of game g has not finished
Pending(g) == \E ws \in Handles(g) : tasks[g][ws] = "receive_move"

\* determine_winner reads the move record only when both entries hold the
\* legal choice submitted in the current round, and nothing but a handle's
\* own error notice is sent while a collection is pending
ReadsCompleteRecord(g) ==
    /\ pc[g] \in {"result2", "after_result"} =>
          \A ws \in Handles(g) :
              /\ tasks[g][ws] = "true"
              /\ players[g][ws] \in LegalMoves
              /\ players[g][ws] = submitted[ws]
    /\ Pending(g) =>
          \A h \in Handles(g) :
              \/ LastType(sent[h]) = "your_move"
              \/ LastType(sent[h]) = "error" /\ tasks[g][h] = "false_invalid"

\* C14: the session task stays in move collection while either receive_move
\* is unfinished, whichever finishes first; determine_winner runs only on a
\* complete record of this round's legal choices; no result and no
\* broadcast error is sent while a collection is pending.
C14_JoinWaitsForBothCollections ==
    \A g \in Games :
        /\ Pending(g) => pc[g] = "gather_moves"
        /\ ReadsCompleteRecord(g)

\* C15: every entry of the move record of a game is None or one of rock,
\* paper, scissors; a received value outside the legal set is rejected
\* before it is stored, so the record that get_result reads never holds one.
C15_RecordHoldsLegalMovesOnly ==
    \A g \in Games : \A ws \in Handles(g) :
        /\ players[g][ws] \in LegalMoves \cup {None}
        /\ (submitted[ws] \notin LegalMoves /\ tasks[g][ws] \in {"false_invalid", "false_closed"})
              => players[g][ws] = None
        /\ pc[g] \in {"result2", "after_result"} => players[g][ws] \in LegalMoves

C15_Witness ==
    \E g \in Games : \E ws \in Handles(g) :
        /\ submitted[ws] = "lizard"
        /\ tasks[g][ws] = "false_invalid"
        /\ players[g][ws] = None
        /\ \E other \in Handles(g) : players[g][other] = "rock"

\* the roles named by the start notices sent to h so far
StartRoles(h) == {sent[h][i].player : i \in {j \in DOMAIN sent[h] : sent[h][j].type = "start"}}

\* C16: in every game the dequeued waiter (the head of the queue when the
\* arrival was paired) is role A and the arrival is role B, in every round;
\* each start notice a handle is sent names that handle's own role.
C16_RolesFixedAndAnnounced ==
    \A g \in Games :
        /\ player1_ws[g] = Head(paired[g])
        /\ player2_ws[g] = g
        /\ DOMAIN players[g] = {player1_ws[g], player2_ws[g]}
        /\ StartRoles(player1_ws[g]) \subseteq {"player1"}
        /\ StartRoles(player2_ws[g]) \subseteq {"player2"}
        /\ pc[g] = "your_move1" =>
              /\ StartRoles(player1_ws[g]) = {"player1"}
              /\ StartRoles(player2_ws[g]) = {"player2"}

C16_Witness ==
    \E g \in Games :
        /\ rounds[g] = 2
        /\ pc[g] = "your_move1"
        /\ ticket[player1_ws[g]] > 0
        /\ CountType(sent[player1_ws[g]], "start") = 2
        /\ CountType(sent[player2_ws[g]], "start") = 2

\* C17: while a round's start notices and move prompts are being sent (the
\* first round and every round entered by a unanimous yes, after a result
\* or after a failed round) both entries of the move record are None and
\* game_over is FALSE; game_over is TRUE only once the result of the
\* current round has been sent to both handles, and that result is made of
\* the choices submitted in the current round.
C17_RoundStartsFromCleanRecord ==
    \A g \in Games :
        /\ pc[g] \in {"start2", "your_move1", "your_move2"} =>
              /\ \A ws \in Handles(g) : players[g][ws] = None
              /\ ~game_over[g]
        /\ pc[g] = "gather_moves" =>
              /\ ~game_over[g]
              /\ \A ws \in Handles(g) :
                    tasks[g][ws] = "receive_move" => players[g][ws] = None
        /\ game_over[g] =>
              /\ resolved[g] >= 1
              /\ \A h \in Handles(g) :
                    result_msg[h] = ResultMsg(submitted[player1_ws[g]],
                                              submitted[player2_ws[g]],
                                              get_result(submitted[player1_ws[g]],
                                                         submitted[player2_ws[g]]))

C17_Witness ==
    \E g \in Games :
        /\ pc[g] = "your_move2"
        /\ rounds[g] = 2
        /\ resolved[g] = 0
        /\ \E h \in Handles(g) : CountType(sent[h], "error") >= 1
        /\ \A ws \in Handles(g) : players[g][ws] = None
        /\ ~game_over[g]

\* the session task of g waits for a frame of a peer that is connected and
\* has not answered the current prompt
WaitingOnPeer(g) ==
    /\ pc[g] \in {"gather_moves", "gather_resp"}
    /\ \E ws \in Handles(g) :
          tasks[g][ws] \in {"receive_move", "receive_response"} /\ IsOpen(ws)

BothSentResult(g) == \A h \in Handles(g) : result_msg[h] # NoResult

\* C18: under fair scheduling of the server's tasks, (1) a round in which
\* both peers submitted legal choices leads to the result being sent to
\* both handles, unless a peer's connection closes; (2) a rematch vote in
\* which some peer did not answer yes leads to the end of the session task;
\* (3) a session keeps reaching a state where it has ended or waits for a
\* connected peer that has not answered: it never stalls anywhere else.
C18_FairSessionProgress ==
    \A g \in Conns :
        /\ (HasGame(g) /\ pc[g] = "gather_moves"
              /\ \A ws \in Handles(g) : tasks[g][ws] = "true")
             ~> (BothSentResult(g) \/ \E h \in Handles(g) : ~IsOpen(h))
        /\ (HasGame(g) /\ pc[g] = "gather_resp" /\ VoteFailed(g)) ~> Terminal(g)
        /\ HasGame(g) ~> (Terminal(g) \/ WaitingOnPeer(g))

C18_Witness ==
    \E g \in Games :
        /\ pc[g] = "done"
        /\ rounds[g] = 1
        /\ resolved[g] = 1
        /\ BothSentResult(g)
        /\ VoteFailed(g)
        /\ \A h \in Handles(g) : IsOpen(h)

\* C19: a second arrival may run while the first handler is suspended in
\* the send of its waiting notice, with the first handle already in the
\* list.  Even so the waiting notice is the first message every role A
\* handle is sent (so it precedes start and your_move), no handle is sent
\* it twice, and the arrival paired as role B is never sent it.
C19_WaitingPrecedesStart ==
    /\ \A h \in Conns :
          /\ CountType(sent[h], "waiting") <= 1
          /\ CountType(sent[h], "waiting") = 1 => sent[h][1].type = "waiting"
    /\ \A g \in Games :
          /\ sent[player1_ws[g]] # <<>> => sent[player1_ws[g]][1].type = "waiting"
          /\ CountType(sent[player2_ws[g]], "waiting") = 0

C19_Witness ==
    \E g \in Games :
        /\ Len(sent[player1_ws[g]]) >= 3
        /\ sent[player1_ws[g]][1].type = "waiting"
        /\ sent[player1_ws[g]][2].type = "start"
        /\ sent[player1_ws[g]][3].type = "your_move"
        /\ Len(sent[player2_ws[g]]) >= 2
        /\ sent[player2_ws[g]][1].type = "start"
        /\ sent[player2_ws[g]][2].type = "your_move"

====
